---- MODULE Spec2Model ----
(***************************************************************************)
(* eKart order backend (src/server.ts): the orders table, the price        *)
(* catalogue, order creation, order listing and the delayed payment        *)
(* verification with its e-mail notification.                              *)
(*                                                                         *)
(* Strings that the code inspects character by character (transaction      *)
(* ids) are sequences of one-character strings.  An order id "EK-<n>" is   *)
(* the pair <<"EK-", n>>.                                                  *)
(***************************************************************************)
EXTENDS Integers, Sequences, FiniteSets, TLC

(***************************************************************************)
(* Bounds of the model.                                                    *)
(***************************************************************************)
IdRange == 2        \* Math.random() * 1000000 is cut down to 0..IdRange-1
NumVerify == 2      \* verification requests that can be in flight at once
MaxTime == 1        \* CURRENT_TIMESTAMP takes the values 0..MaxTime
MaxItems == 2       \* longest item list of the pricing specification

MaxRows == IdRange + 1

(***************************************************************************)
(* Catalog.                                                                *)
(***************************************************************************)
PRODUCTS ==
  << [id |-> 1, name |-> "Mechanical RGB Keyboard", price |-> 10499],
     [id |-> 2, name |-> "4K UltraWide Monitor", price |-> 39999],
     [id |-> 3, name |-> "Wireless Gaming Mouse", price |-> 6499],
     [id |-> 4, name |-> "Noise Cancelling Headphones", price |-> 19999],
     [id |-> 5, name |-> "Gaming PC Case", price |-> 12999],
     [id |-> 6, name |-> "Ergonomic Office Chair", price |-> 27999],
     [id |-> 7, name |-> "Streamer Microphone", price |-> 14999],
     [id |-> 8, name |-> "External SSD 2TB", price |-> 15999],
     [id |-> 9, name |-> "Pendrive", price |-> 1] >>

undefined == [undefined |-> TRUE]

\* PRODUCTS.find(p => p.id === id): the first match, or undefined
FindProduct(id) ==
  IF \E i \in 1..Len(PRODUCTS) : PRODUCTS[i].id = id
  THEN PRODUCTS[CHOOSE i \in 1..Len(PRODUCTS) :
                  /\ PRODUCTS[i].id = id
                  /\ \A j \in 1..(i-1) : PRODUCTS[j].id # id]
  ELSE undefined

\* A quantity that is missing or no number makes the product NaN; NaN is
\* bound as NULL by the INSERT and read back as null.  NotANumber is that
\* one value: it is no price, no quantity and no sum of the inputs.
NotANumber == -2147483647

JsMul(a, b) == IF a = NotANumber \/ b = NotANumber THEN NotANumber ELSE a * b
JsAdd(a, b) == IF a = NotANumber \/ b = NotANumber THEN NotANumber ELSE a + b

RECURSIVE CalcTotalTrustsClient(_)
CalcTotalTrustsClient(items) ==
  IF items = <<>> THEN 0
  ELSE LET n == Len(items)
           item == items[n]
           rest == CalcTotalTrustsClient(SubSeq(items, 1, n - 1))
           product == FindProduct(item.id)
       IN IF product # undefined
          THEN JsAdd(rest, JsMul(item.price, item.quantity))
          ELSE rest

\* the loop of the creation handler: calculatedTotal after all items
RECURSIVE CalcTotal(_)
CalcTotal(items) ==
  IF items = <<>> THEN 0
  ELSE LET n == Len(items)
           item == items[n]
           rest == CalcTotal(SubSeq(items, 1, n - 1))
           product == FindProduct(item.id)
       IN IF product # undefined
          THEN JsAdd(rest, JsMul(product.price, item.quantity))
          ELSE rest

(***************************************************************************)
(* Transaction ids.                                                        *)
(***************************************************************************)
TxnDigits == 12
Digits == {"0", "1", "2", "3", "4", "5", "6", "7", "8", "9"}
DemoPrefix == <<"2", "0", "2", "6">>

\* /\d{12}/ without the anchors: some window of 12 digits
MatchesFormatUnanchored(t) ==
  \E s \in 0..(Len(t) - TxnDigits) :
     \A i \in (s + 1)..(s + TxnDigits) : t[i] \in Digits

\* /^\d{12}$/.test(transactionId)
MatchesFormat(t) ==
  /\ Len(t) = TxnDigits
  /\ \A i \in 1..Len(t) : t[i] \in Digits

\* startsWith that compares one character too few
StartsWithShort(t, prefix) ==
  /\ Len(t) >= Len(prefix) - 1
  /\ SubSeq(t, 1, Len(prefix) - 1) = SubSeq(prefix, 1, Len(prefix) - 1)

\* transactionId.startsWith(prefix)
StartsWith(t, prefix) ==
  /\ Len(t) >= Len(prefix)
  /\ SubSeq(t, 1, Len(prefix)) = prefix

(***************************************************************************)
(* The orders table.  A table is the sequence of its rows in insertion     *)
(* order; NULL is the SQL NULL of a column.                                *)
(***************************************************************************)
NULL == <<"NULL">>

EK(n) == <<"EK-", n>>

HasId(table, id) == \E i \in 1..Len(table) : table[i].id = id

NewRow(id, customer, total, ts) ==
  [ id |-> id,
    customer_name |-> <<customer.firstName, " ", customer.lastName>>,
    email |-> customer.email,
    address |-> customer.address,
    total |-> total,
    status |-> "pending",
    transaction_id |-> NULL,
    created_at |-> ts ]

\* INSERT without the PRIMARY KEY: the row is always added
InsertNoKey(table, row) == [ok |-> TRUE, table |-> Append(table, row)]

\* INSERT OR REPLACE: a row with the same id is overwritten
InsertOrReplace(table, row) ==
  IF HasId(table, row.id)
  THEN [ok |-> TRUE,
        table |-> [i \in 1..Len(table) |->
                     IF table[i].id = row.id THEN row ELSE table[i]]]
  ELSE [ok |-> TRUE, table |-> Append(table, row)]

\* INSERT INTO orders ... : id is the PRIMARY KEY, a duplicate throws
Insert(table, row) ==
  IF HasId(table, row.id)
  THEN [ok |-> FALSE, table |-> table]
  ELSE [ok |-> TRUE, table |-> Append(table, row)]

\* SELECT * FROM orders WHERE id = ? with .get(): first row or undefined
Get(table, id) ==
  IF HasId(table, id)
  THEN table[CHOOSE i \in 1..Len(table) :
               /\ table[i].id = id
               /\ \A j \in 1..(i-1) : table[j].id # id]
  ELSE undefined

\* UPDATE that forgets the transaction_id column
UpdatePaidStatusOnly(table, txn, id) ==
  [ changes |-> Cardinality({i \in 1..Len(table) : table[i].id = id}),
    table |-> [i \in 1..Len(table) |->
                 IF table[i].id = id
                 THEN [table[i] EXCEPT !.status = "paid"]
                 ELSE table[i]] ]

\* UPDATE ... WHERE id = ? AND status = 'pending'
UpdatePaidIfPending(table, txn, id) ==
  [ changes |-> Cardinality({i \in 1..Len(table) :
                               table[i].id = id /\ table[i].status = "pending"}),
    table |-> [i \in 1..Len(table) |->
                 IF table[i].id = id /\ table[i].status = "pending"
                 THEN [table[i] EXCEPT !.status = "paid",
                                       !.transaction_id = txn]
                 ELSE table[i]] ]

\* UPDATE without the WHERE clause
UpdatePaidAll(table, txn, id) ==
  [ changes |-> Len(table),
    table |-> [i \in 1..Len(table) |->
                 [table[i] EXCEPT !.status = "paid", !.transaction_id = txn]] ]

\* UPDATE orders SET status = 'paid', transaction_id = ? WHERE id = ?
UpdatePaid(table, txn, id) ==
  [ changes |-> Cardinality({i \in 1..Len(table) : table[i].id = id}),
    table |-> [i \in 1..Len(table) |->
                 IF table[i].id = id
                 THEN [table[i] EXCEPT !.status = "paid",
                                       !.transaction_id = txn]
                 ELSE table[i]] ]

\* the permutations of 1..n
Perms(n) == {p \in [1..n -> 1..n] : \A i, j \in 1..n : i # j => p[i] # p[j]}

\* ORDER BY created_at ASC
SelectAllAsc(table) ==
  { [i \in 1..Len(table) |-> table[p[i]]] : p \in
      { q \in Perms(Len(table)) :
          \A i \in 1..(Len(table) - 1) :
             table[q[i]].created_at <= table[q[i+1]].created_at } }

\* SELECT * FROM orders ORDER BY created_at DESC: the possible results
\* (SQL leaves the order of rows with equal keys open)
SelectAllDesc(table) ==
  { [i \in 1..Len(table) |-> table[p[i]]] : p \in
      { q \in Perms(Len(table)) :
          \A i \in 1..(Len(table) - 1) :
             table[q[i]].created_at >= table[q[i+1]].created_at } }

(***************************************************************************)
(* HTTP responses.                                                         *)
(***************************************************************************)
NoResponse == [status |-> 0, body |-> [none |-> TRUE]]
Json(status, body) == [status |-> status, body |-> body]

ErrFormat == [error |-> "Invalid Transaction ID. Must be 12 digits."]
ErrNotFound == [error |-> "Order not found"]
ErrRule == [error |-> "Transaction ID verification failed. For demo purposes, use an ID starting with '2026'."]
ErrVerify == [error |-> "Verification failed"]
ErrCreate == [error |-> "Failed to create order"]
ErrFetch == [error |-> "Failed to fetch orders"]

(***************************************************************************)
(* Inputs.                                                                 *)
(***************************************************************************)
Rep(c, n) == [i \in 1..n |-> c]

TxnAccepted1 == DemoPrefix \o Rep("0", 7) \o <<"1">>
TxnAccepted2 == DemoPrefix \o Rep("0", 7) \o <<"2">>
TxnRejected == <<"2", "0", "2", "5">> \o Rep("0", 7) \o <<"1">>
TxnShort == DemoPrefix \o Rep("0", 7)
TxnLong == DemoPrefix \o Rep("0", 9)
TxnLetter == DemoPrefix \o Rep("0", 7) \o <<"x">>
TxnEmpty == <<>>

TxnInputs == {TxnAccepted1, TxnAccepted2, TxnRejected,
              TxnShort, TxnLong, TxnLetter, TxnEmpty}

OrderIds == {EK(n) : n \in 0..(IdRange - 1)}

Customers == { [firstName |-> "Asha", lastName |-> "Rao",
                email |-> "asha@example.com", address |-> "1 Main St"] }

\* items carry a price of the client's that is no price of the catalog
ClientPrices == {5}

\* id 0 is no product of the catalog
ItemChoices ==
  { [id |-> c[1], quantity |-> c[2], price |-> p] :
      c \in {<<0, 2>>, <<1, -1>>, <<1, 2>>, <<9, -1>>, <<9, 0>>, <<9, 2>>},
      p \in ClientPrices }

SeqsUpTo(S, n) == UNION { [1..k -> S] : k \in 0..n }

ItemLists == SeqsUpTo(ItemChoices, MaxItems)

\* the item list of the main specification: a known and an unknown product
CartInputs ==
  { << [id |-> 1, quantity |-> 2, price |-> p],
       [id |-> 10, quantity |-> 2, price |-> p] >> : p \in ClientPrices }

\* the item lists of the notification specification: the second item list
\* has an item without a quantity
MailCartInputs ==
  CartInputs \cup
  { << [id |-> 1, quantity |-> NotANumber, price |-> p] >> : p \in ClientPrices }

(***************************************************************************)
(* State.                                                                  *)
(***************************************************************************)
VARIABLES
  orders,    \* the orders table of orders.db
  now,       \* CURRENT_TIMESTAMP of the database
  creds,     \* GMAIL_USER and GMAIL_APP_PASSWORD are both set
  reqs,      \* the verification requests in flight, one slot each
  out,       \* what the latest step sent to a client, with its request
  crashed    \* the process was ended by an unhandled rejection

vars == <<orders, now, creds, reqs, out, crashed>>

Slots == 1..NumVerify

\* a slot: pc is "idle", "timer" (setTimeout pending), "mail" (awaiting
\* sendOrderEmail) or "hung" (the callback threw, no response will come)
IdleReq ==
  [ pc |-> "idle",
    orderId |-> EK(0),
    transactionId |-> <<>>,
    order |-> undefined,    \* const order of the callback
    stmts |-> 0,            \* store statements run for the request
    updated |-> FALSE,      \* its UPDATE changed a row
    mail |-> "none" ]       \* status argument of its sendOrderEmail call

NoOut ==
  [ op |-> "none", req |-> [none |-> TRUE], res |-> NoResponse,
    failed |-> "none" ]

\* the response of a verification request q, with what the request did
VerifyOut(q, res, failed, mailResult) ==
  [ op |-> "verify",
    req |-> [orderId |-> q.orderId, transactionId |-> q.transactionId],
    res |-> res,
    failed |-> failed,          \* the store statement that threw
    timer |-> q.stmts > 0,      \* the setTimeout callback ran
    order |-> q.order,
    stmts |-> q.stmts,
    updated |-> q.updated,
    mail |-> q.mail,
    mailResult |-> mailResult ]

Init ==
  /\ orders = <<>>
  /\ now = 0
  /\ creds \in BOOLEAN
  /\ reqs = [r \in Slots |-> IdleReq]
  /\ out = NoOut
  /\ crashed = FALSE

(***************************************************************************)
(* GET /api/admin/orders                                                   *)
(***************************************************************************)
ListOrders(fail) ==
  /\ ~crashed
  /\ IF fail
     THEN out' = [op |-> "list", req |-> [none |-> TRUE],
                  res |-> Json(500, ErrFetch), failed |-> "select"]
     ELSE \E rows \in SelectAllDesc(orders) :
            out' = [op |-> "list", req |-> [none |-> TRUE],
                    res |-> Json(200, rows), failed |-> "none"]
  /\ UNCHANGED <<orders, now, creds, reqs, crashed>>

(***************************************************************************)
(* POST /api/orders                                                        *)
(***************************************************************************)
CreateOrder(items, customer, n, fail) ==
  /\ ~crashed
  /\ Len(orders) < MaxRows
  /\ LET calculatedTotal == CalcTotal(items)
         orderId == EK(n)
         ins == Insert(orders, NewRow(orderId, customer, calculatedTotal, now))
         req == [items |-> items, customer |-> customer, orderId |-> orderId]
     IN IF fail \/ ~ins.ok
        THEN /\ out' = [op |-> "create", req |-> req,
                        res |-> Json(500, ErrCreate),
                        failed |-> IF fail THEN "insert" ELSE "duplicate"]
             /\ orders' = orders
        ELSE /\ orders' = ins.table
             /\ out' = [op |-> "create", req |-> req,
                        res |-> Json(200, [orderId |-> orderId,
                                           total |-> calculatedTotal]),
                        failed |-> "none"]
  /\ UNCHANGED <<now, creds, reqs, crashed>>

\* the database clock advances
Tick ==
  /\ ~crashed
  /\ now < MaxTime
  /\ now' = now + 1
  /\ out' = NoOut
  /\ UNCHANGED <<orders, creds, reqs, crashed>>

(***************************************************************************)
(* POST /api/verify-payment                                                *)
(***************************************************************************)
\* the synchronous part of the handler: format check, then setTimeout.
\* Slots are names only: a request takes the lowest free one.
VerifyRequest(r, orderId, transactionId) ==
  /\ ~crashed
  /\ reqs[r].pc = "idle"
  /\ \A s \in Slots : s < r => reqs[s].pc # "idle"
  /\ LET q == [IdleReq EXCEPT !.orderId = orderId,
                              !.transactionId = transactionId]
     IN IF ~MatchesFormat(transactionId)
        THEN /\ out' = VerifyOut(q, Json(400, ErrFormat), "none", "none")
             /\ reqs' = reqs
        ELSE /\ out' = NoOut
             /\ reqs' = [reqs EXCEPT ![r] = [q EXCEPT !.pc = "timer"]]
  /\ UNCHANGED <<orders, now, creds, crashed>>

\* what the callback does with the looked-up order, acceptance rule first
BranchRuleFirst(order, transactionId) ==
  IF ~StartsWith(transactionId, DemoPrefix) THEN "rejected"
  ELSE IF order = undefined THEN "notfound"
  ELSE "update"

\* what the callback does with the looked-up order
Branch(order, transactionId) ==
  IF order = undefined THEN "notfound"
  ELSE IF ~StartsWith(transactionId, DemoPrefix) THEN "rejected"
  ELSE "update"

\* sendOrderEmail(order, status) up to transporter.sendMail: it returns at
\* once without credentials, and building the html throws on
\* order.total.toLocaleString() when the total is null
SendOrderEmail(order) ==
  IF ~creds THEN "skipped"
  ELSE IF order.total = NotANumber THEN "threw"
  ELSE "sending"

\* request r answers with res and is over
Respond(r, q, res, failed, mailResult) ==
  /\ out' = VerifyOut(q, res, failed, mailResult)
  /\ reqs' = [reqs EXCEPT ![r] = IdleReq]

\* sendOrderEmail is started and the response does not wait for it
NotifyDetached(r, q, kind, res) ==
  Respond(r, [q EXCEPT !.mail = kind], res, "none", "none")

\* sendOrderEmail is called with 'failed' whatever the branch
NotifyFailedKind(r, q, kind, res) ==
  IF SendOrderEmail(q.order) = "sending"
  THEN /\ out' = NoOut
       /\ reqs' = [reqs EXCEPT ![r] = [q EXCEPT !.pc = "mail", !.mail = "failed"]]
  ELSE Respond(r, [q EXCEPT !.mail = "failed"], res, "none", "skipped")

\* await sendOrderEmail(order, kind), then res, when the call does not
\* throw: without credentials the call returns at once and the response
\* follows in the same turn
Notify(r, q, kind, res) ==
  IF SendOrderEmail(q.order) = "sending"
  THEN /\ out' = NoOut
       /\ reqs' = [reqs EXCEPT ![r] = [q EXCEPT !.pc = "mail", !.mail = kind]]
  ELSE Respond(r, [q EXCEPT !.mail = kind], res, "none", "skipped")

\* the setTimeout callback up to its first wait for the mail transport
TimerFires(r, lookupFails, updateFails, exits) ==
  /\ ~crashed
  /\ reqs[r].pc = "timer"
  /\ LET q == reqs[r]
         order == Get(orders, q.orderId)
         q1 == [q EXCEPT !.stmts = 1, !.order = order]
         q2 == [q1 EXCEPT !.stmts = 2]
         b == Branch(order, q.transactionId)
         upd == UpdatePaid(orders, q.transactionId, q.orderId)
     IN IF lookupFails
        THEN \* the SELECT throws outside any try: the async callback's
             \* promise is rejected and nobody handles it
             /\ reqs' = [reqs EXCEPT ![r] = [IdleReq EXCEPT !.pc = "hung"]]
             /\ out' = VerifyOut([q EXCEPT !.stmts = 1], NoResponse, "lookup", "none")
             /\ crashed' = exits
             /\ orders' = orders
        ELSE CASE b = "notfound" ->
                    /\ Respond(r, q1, Json(404, ErrNotFound), "none", "none")
                    /\ orders' = orders
                    /\ crashed' = crashed
               [] b = "rejected" /\ SendOrderEmail(order) = "threw" ->
                    \* line 163 is outside any try: as for the SELECT
                    /\ reqs' = [reqs EXCEPT ![r] = [IdleReq EXCEPT !.pc = "hung"]]
                    /\ out' = VerifyOut([q1 EXCEPT !.mail = "failed"],
                                        NoResponse, "none", "threw")
                    /\ orders' = orders
                    /\ crashed' = exits
               [] b = "rejected" /\ SendOrderEmail(order) # "threw" ->
                    /\ Notify(r, q1, "failed", Json(400, ErrRule))
                    /\ orders' = orders
                    /\ crashed' = crashed
               [] b = "update" /\ updateFails ->
                    /\ Respond(r, q2, Json(500, ErrVerify), "update", "none")
                    /\ orders' = orders
                    /\ crashed' = crashed
               [] b = "update" /\ ~updateFails ->
                    /\ orders' = upd.table
                    /\ crashed' = crashed
                    /\ IF upd.changes = 0
                       THEN Respond(r, q2, Json(404, ErrNotFound), "none", "none")
                       ELSE IF SendOrderEmail(order) = "threw"
                       THEN \* line 179 is inside the try: the catch answers
                            Respond(r, [q2 EXCEPT !.updated = TRUE,
                                                  !.mail = "success"],
                                    Json(500, ErrVerify), "none", "threw")
                       ELSE Notify(r, [q2 EXCEPT !.updated = TRUE], "success",
                                   Json(200, [success |-> TRUE]))
  /\ UNCHANGED <<now, creds>>

\* transporter.sendMail settles; the handler resumes and responds
MailCompletes(r, delivered) ==
  /\ ~crashed
  /\ reqs[r].pc = "mail"
  /\ LET q == reqs[r]
     IN Respond(r, q,
                IF q.mail = "failed" THEN Json(400, ErrRule)
                ELSE Json(200, [success |-> TRUE]),
                "none",
                IF delivered THEN "sent" ELSE "error")
  /\ UNCHANGED <<orders, now, creds, crashed>>

Next ==
  \/ \E fail \in BOOLEAN : ListOrders(fail)
  \/ \E items \in CartInputs, c \in Customers, n \in 0..(IdRange - 1),
        fail \in BOOLEAN : CreateOrder(items, c, n, fail)
  \/ \E r \in Slots, id \in OrderIds, t \in TxnInputs : VerifyRequest(r, id, t)
  \/ \E r \in Slots, lf \in BOOLEAN, uf \in BOOLEAN, ex \in BOOLEAN :
        TimerFires(r, lf, uf, ex)
  \/ \E r \in Slots, d \in BOOLEAN : MailCompletes(r, d)

Spec == Init /\ [][Next]_vars

\* order creation alone, over every item list up to MaxItems; the second
\* creation on meets the stored id and is refused
NextPricing ==
  \E items \in ItemLists, c \in Customers : CreateOrder(items, c, 0, FALSE)

\* the mail transport plays no part in creation
InitPricing == Init /\ ~creds

SpecPricing == InitPricing /\ [][NextPricing]_vars

\* one order id, item lists with and without a total, verification and
\* the mail transport
NextMail ==
  \/ \E items \in MailCartInputs, c \in Customers :
        CreateOrder(items, c, 0, FALSE)
  \/ \E r \in Slots, t \in TxnInputs : VerifyRequest(r, EK(0), t)
  \/ \E r \in Slots, lf \in BOOLEAN, uf \in BOOLEAN, ex \in BOOLEAN :
        TimerFires(r, lf, uf, ex)
  \/ \E r \in Slots, d \in BOOLEAN : MailCompletes(r, d)

SpecMail == Init /\ [][NextMail]_vars

\* creation, the database clock and the listing: the order of a listing
NextListing ==
  \/ \E fail \in BOOLEAN : ListOrders(fail)
  \/ \E items \in CartInputs, c \in Customers, n \in 0..(IdRange - 1),
        fail \in BOOLEAN : CreateOrder(items, c, n, fail)
  \/ Tick

SpecListing == Init /\ [][NextListing]_vars

(***************************************************************************)
(* Properties.  They are stated with their own readings of the acceptance  *)
(* rule, of the catalog total and of the table.                            *)
(***************************************************************************)
WellFormedTxn(t) ==
  /\ DOMAIN t = 1..12
  /\ \A i \in DOMAIN t : t[i] \in {"0", "1", "2", "3", "4", "5", "6", "7", "8", "9"}

AcceptedTxn(t) ==
  /\ WellFormedTxn(t)
  /\ t[1] = "2" /\ t[2] = "0" /\ t[3] = "2" /\ t[4] = "6"

RowsOf(table, id) == {table[i] : i \in {j \in DOMAIN table : table[j].id = id}}

RECURSIVE QtyOf(_, _)
QtyOf(items, id) ==
  IF items = <<>> THEN 0
  ELSE (IF Head(items).id = id THEN Head(items).quantity ELSE 0)
       + QtyOf(Tail(items), id)

RECURSIVE CatalogSum(_, _)
CatalogSum(k, items) ==
  IF k = 0 THEN 0
  ELSE PRODUCTS[k].price * QtyOf(items, PRODUCTS[k].id) + CatalogSum(k - 1, items)

Answered(o) == o.op = "verify" /\ o.res # NoResponse

\* C1: the total returned and the total stored by a successful creation are
\* the sum of catalog price times quantity over the items whose id is in the
\* catalog, per product; the client's price plays no part.
C1_TotalFromCatalog ==
  (out.op = "create" /\ out.res.status = 200) =>
     /\ out.res.body.total = CatalogSum(Len(PRODUCTS), out.req.items)
     /\ RowsOf(orders, out.res.body.orderId) # {}
     /\ \A row \in RowsOf(orders, out.res.body.orderId) :
           row.total = CatalogSum(Len(PRODUCTS), out.req.items)

C1_Witness ==
  /\ out.op = "create" /\ out.res.status = 200
  /\ Len(out.req.items) = 2
  /\ out.req.items[1].id = 0
  /\ out.req.items[2].id = 9 /\ out.req.items[2].quantity = -1
  /\ out.res.body.total = -1

\* C2: a verification with an accepted transactionId that found its order
\* pending and met no store failure is answered 200 {success:true}, and when
\* the response is sent the stored order is paid with this request's
\* transactionId.
C2_AcceptedPaysWithOwnId ==
  ( /\ Answered(out)
    /\ AcceptedTxn(out.req.transactionId)
    /\ out.failed = "none"
    /\ out.order # undefined
    /\ out.order.status = "pending" ) =>
     /\ out.res = Json(200, [success |-> TRUE])
     /\ RowsOf(orders, out.req.orderId) # {}
     /\ \A row \in RowsOf(orders, out.req.orderId) :
           /\ row.status = "paid"
           /\ row.transaction_id = out.req.transactionId

RejectedOfPending(o) ==
  /\ Answered(o)
  /\ WellFormedTxn(o.req.transactionId)
  /\ ~AcceptedTxn(o.req.transactionId)
  /\ o.order # undefined
  /\ o.order.status = "pending"

C4_MalformedRejectedAtOnce ==
  [][ /\ \A r \in Slots :
           reqs'[r].pc \in {"timer", "mail"} =>
              WellFormedTxn(reqs'[r].transactionId)
      /\ (out'.op = "verify" /\ ~WellFormedTxn(out'.req.transactionId)) =>
            /\ out'.res = Json(400, ErrFormat)
            /\ ~out'.timer
            /\ out'.stmts = 0
            /\ out'.mail = "none"
            /\ orders' = orders
            /\ reqs' = reqs
            /\ crashed' = crashed ]_vars

C4_Witness ==
  /\ out.op = "verify"
  /\ out.res = Json(400, ErrFormat)
  /\ Len(out.req.transactionId) = 13
  /\ \E row \in RowsOf(orders, out.req.orderId) : row.status = "pending"
  /\ \E r \in Slots : reqs[r].pc = "timer"

\* C5: when the timer of a request with a well-formed transactionId fires,
\* no row has its orderId and the SELECT does not throw, the request is
\* answered 404 in that step, whatever the transactionId starts with; the
\* table is unchanged and no mail is sent.
C5_UnknownOrderIs404 ==
  [][ \A r \in Slots :
        ( /\ reqs[r].pc = "timer"
          /\ reqs'[r].pc # "timer"
          /\ RowsOf(orders, reqs[r].orderId) = {}
          /\ out'.failed = "none" ) =>
           /\ out'.op = "verify"
           /\ out'.req = [orderId |-> reqs[r].orderId,
                          transactionId |-> reqs[r].transactionId]
           /\ out'.res = Json(404, ErrNotFound)
           /\ out'.mail = "none"
           /\ orders' = orders ]_vars

C5_Witness ==
  /\ Answered(out)
  /\ out.res.status = 404
  /\ ~AcceptedTxn(out.req.transactionId)
  /\ RowsOf(orders, out.req.orderId) = {}
  /\ orders # <<>>

\* C6 as claimed: once an order is paid its stored transactionId never
\* changes.
C6_TransactionIdSetOnce ==
  [][ \A i \in DOMAIN orders :
        orders[i].status = "paid" =>
           /\ i \in DOMAIN orders'
           /\ orders'[i].transaction_id = orders[i].transaction_id ]_vars

\* C7: an order that is paid is still stored and still paid after every
\* step.
C7_PaidStaysPaid ==
  [][ \A i \in DOMAIN orders :
        orders[i].status = "paid" =>
           /\ RowsOf(orders', orders[i].id) # {}
           /\ \A row \in RowsOf(orders', orders[i].id) : row.status = "paid" ]_vars

C7_Witness ==
  /\ Answered(out)
  /\ out.res = Json(400, ErrRule)
  /\ out.order # undefined
  /\ out.order.status = "paid"
  /\ \A row \in RowsOf(orders, out.req.orderId) : row.status = "paid"

\* C8: every stored order is pending without a transactionId or paid with an
\* accepted one.
C8_PaidIffTransactionId ==
  \A i \in DOMAIN orders :
     /\ orders[i].status \in {"pending", "paid"}
     /\ (orders[i].status = "paid") <=> (orders[i].transaction_id # NULL)
     /\ orders[i].transaction_id # NULL => AcceptedTxn(orders[i].transaction_id)

C8_Witness ==
  /\ \E i \in DOMAIN orders : orders[i].status = "paid"
  /\ \E i \in DOMAIN orders : orders[i].status = "pending"
  /\ Answered(out) /\ out.res.status = 200

\* C9: no two rows share an id; a creation whose generated id is already
\* stored is answered 500 and leaves the table as it was.
C9_UniqueIds ==
  [][ /\ \A i, j \in DOMAIN orders' :
           orders'[i].id = orders'[j].id => i = j
      /\ (out'.op = "create" /\ RowsOf(orders, out'.req.orderId) # {}) =>
            /\ out'.res = Json(500, ErrCreate)
            /\ orders' = orders ]_vars

C9_Witness ==
  /\ out.op = "create"
  /\ out.failed = "duplicate"
  /\ out.res.status = 500
  /\ \E row \in RowsOf(orders, out.req.orderId) : row.status = "paid"
  /\ Len(orders) = 2

\* C10 as claimed: every statement of the store that throws is answered 500
\* and the process keeps running.
C10_StoreFailuresAnswered500 ==
  /\ ~crashed
  /\ out.failed # "none" => out.res.status = 500

Listed(o) == o.op = "list" /\ o.res.status = 200

EachOnce(rows, table) ==
  /\ Len(rows) = Len(table)
  /\ \A i \in DOMAIN table :
        Cardinality({j \in DOMAIN rows : rows[j] = table[i]}) = 1

\* C11 as claimed: the response to a verification whose order was found, and
\* the stored order, are what they are when the mail is skipped, whatever
\* the mail call does: 200 and a paid order for an accepted transactionId,
\* 400 with the rule's message for a rejected one.
C11_MailNeverChangesOutcome ==
  ( /\ out.op = "verify"
    /\ out.timer
    /\ out.failed = "none"
    /\ out.order # undefined ) =>
     /\ out.res = IF AcceptedTxn(out.req.transactionId)
                  THEN Json(200, [success |-> TRUE])
                  ELSE Json(400, ErrRule)
     /\ AcceptedTxn(out.req.transactionId) =>
           \A row \in RowsOf(orders, out.req.orderId) : row.status = "paid"

\* C12 as claimed: a listing holds every stored order once, and of two
\* orders the one inserted later comes first.
C12_LaterCreatedFirst ==
  Listed(out) =>
     /\ EachOnce(out.res.body, orders)
     /\ \A i, j \in DOMAIN orders :
           i < j =>
              \E a, b \in DOMAIN out.res.body :
                 /\ a < b
                 /\ out.res.body[a] = orders[j]
                 /\ out.res.body[b] = orders[i]

\* C12 as amended: a listing holds every stored order once, and of two
\* orders with different created_at the one with the later created_at comes
\* first.
C12_ListingByTimestamp ==
  Listed(out) =>
     /\ EachOnce(out.res.body, orders)
     /\ \A a, b \in DOMAIN out.res.body :
           out.res.body[a].created_at > out.res.body[b].created_at => a < b

C12_Witness ==
  /\ Listed(out)
  /\ Len(out.res.body) = 2
  /\ out.res.body[1].created_at > out.res.body[2].created_at
  /\ out.res.body[1] = orders[2]

C14_LookupThenUpdateLater ==
  \A r \in Slots :
     ( /\ ~crashed
       /\ reqs[r].pc = "timer"
       /\ AcceptedTxn(reqs[r].transactionId)
       /\ RowsOf(orders, reqs[r].orderId) # {} ) =>
        ENABLED ( /\ \E lf, uf, ex \in BOOLEAN : TimerFires(r, lf, uf, ex)
                  /\ reqs'[r].pc # "idle"
                  /\ reqs'[r].order # undefined
                  /\ ~reqs'[r].updated )

\* C14 as amended: SELECT and UPDATE of one verification run in the same
\* turn of the timer callback: no request rests between a SELECT that found
\* its order and its UPDATE, an order that was found is never answered 404,
\* and without a store failure its UPDATE changed a row.
C14_LookupAndUpdateInOneTurn ==
  /\ \A r \in Slots :
        ( /\ reqs[r].pc # "idle"
          /\ reqs[r].order # undefined
          /\ AcceptedTxn(reqs[r].transactionId) ) => reqs[r].updated
  /\ (Answered(out) /\ out.order # undefined) =>
        /\ out.res.status # 404
        /\ (AcceptedTxn(out.req.transactionId) /\ out.failed = "none") =>
              out.updated

C14_Witness ==
  \E r1, r2 \in Slots :
     /\ reqs[r1].pc = "mail" /\ reqs[r1].updated
     /\ reqs[r2].pc = "timer"
     /\ reqs[r2].orderId = reqs[r1].orderId
     /\ AcceptedTxn(reqs[r2].transactionId)
     /\ out.op = "list"

\* C15: a creation answered 200 appends exactly one row, with the id and
\* the total of the response, status pending and no transactionId, and
\* leaves every other row as it was; a creation answered otherwise is
\* answered 500 and leaves the table as it was.
C15_CreateAddsOneRow ==
  [][ out'.op = "create" =>
        IF out'.res.status = 200
        THEN /\ Len(orders') = Len(orders) + 1
             /\ \A i \in DOMAIN orders : orders'[i] = orders[i]
             /\ orders'[Len(orders')].id = out'.res.body.orderId
             /\ orders'[Len(orders')].total = out'.res.body.total
             /\ orders'[Len(orders')].status = "pending"
             /\ orders'[Len(orders')].transaction_id = NULL
        ELSE /\ out'.res.status = 500
             /\ orders' = orders ]_vars

C15_Witness ==
  /\ out.op = "create"
  /\ out.res.status = 200
  /\ Len(orders) = 2
  /\ orders[1].status = "paid"
  /\ orders[2].id = out.res.body.orderId
  /\ \E r \in Slots : reqs[r].pc = "mail"

\* C16: no step removes a row or changes a row's id, customer_name, email,
\* address, total or created_at; only a creation adds a row; a step of a
\* verification leaves every row with another id than its orderId as it
\* was; a listing leaves the table as it was.
C16_OrdersKeepTheirFields ==
  [][ /\ \A i \in DOMAIN orders :
           /\ i \in DOMAIN orders'
           /\ orders'[i].id = orders[i].id
           /\ orders'[i].customer_name = orders[i].customer_name
           /\ orders'[i].email = orders[i].email
           /\ orders'[i].address = orders[i].address
           /\ orders'[i].total = orders[i].total
           /\ orders'[i].created_at = orders[i].created_at
      /\ out'.op # "create" => Len(orders') = Len(orders)
      /\ out'.op = "list" => orders' = orders
      /\ \A r \in Slots :
           (reqs[r].pc # "idle" /\ reqs'[r] # reqs[r]) =>
              \A i \in DOMAIN orders :
                 orders[i].id # reqs[r].orderId => orders'[i] = orders[i] ]_vars

C16_Witness ==
  /\ Len(orders) = 2
  /\ orders[1].status = "pending"
  /\ orders[2].status = "paid"
  /\ out.op = "verify"
  /\ out.updated
  /\ out.req.orderId = orders[2].id

HandedToTransport(o) == o.mail # "none" /\ o.mailResult \in {"sent", "error"}

\* C17: while a request awaits sendOrderEmail its order was found, and the
\* call is the failure notice of a rejected transactionId that updated
\* nothing, or the success notice of an UPDATE already applied (the order
\* is stored as paid); a response that follows a sendOrderEmail call is
\* sent only when the call has finished.
C17_NotifyThenRespond ==
  /\ \A r \in Slots :
        reqs[r].pc = "mail" =>
           /\ reqs[r].order # undefined
           /\ reqs[r].mail \in {"failed", "success"}
           /\ reqs[r].mail = "failed" =>
                 /\ ~AcceptedTxn(reqs[r].transactionId)
                 /\ ~reqs[r].updated
           /\ reqs[r].mail = "success" =>
                 /\ AcceptedTxn(reqs[r].transactionId)
                 /\ reqs[r].updated
                 /\ RowsOf(orders, reqs[r].orderId) # {}
                 /\ \A row \in RowsOf(orders, reqs[r].orderId) :
                       row.status = "paid"
  /\ (Answered(out) /\ out.mail # "none") =>
        /\ out.mailResult \in {"skipped", "sent", "error", "threw"}
        /\ out.order # undefined
        /\ out.mail = "failed" =>
              ~AcceptedTxn(out.req.transactionId) /\ ~out.updated
        /\ out.mail = "success" => out.updated

C17_Witness ==
  /\ Answered(out)
  /\ out.mail = "success"
  /\ out.mailResult = "sent"
  /\ \E r \in Slots : reqs[r].pc = "mail" /\ reqs[r].mail = "failed"

\* C18: a verification hands at most one mail to the transport; a success
\* mail goes with the answer 200 and a failure mail with the answer 400 of
\* the acceptance rule, for a transactionId the rule rejects; the answers
\* 400 for the format, 404 and 500, and a request left without answer, hand
\* over no mail; creation and listing start no notification.
C18_MailMatchesResponse ==
  [][ /\ out'.op = "verify" =>
           /\ out'.res = Json(200, [success |-> TRUE]) <=>
                 (out'.mail = "success" /\ out'.mailResult # "threw")
           /\ out'.res = Json(400, ErrRule) <=> out'.mail = "failed" /\ Answered(out')
           /\ out'.res = Json(400, ErrRule) =>
                 ~AcceptedTxn(out'.req.transactionId)
           /\ HandedToTransport(out') =>
                 out'.res \in {Json(200, [success |-> TRUE]), Json(400, ErrRule)}
      /\ \A r \in Slots :
           reqs[r].pc = "mail" =>
              \/ reqs'[r] = reqs[r]
              \/ reqs'[r].pc = "idle" /\ out'.mail = reqs[r].mail
      /\ out'.op \in {"create", "list"} => reqs' = reqs ]_vars

C18_Witness ==
  /\ Answered(out)
  /\ out.res = Json(400, ErrRule)
  /\ out.mail = "failed"
  /\ out.mailResult = "sent"
  /\ out.order.status = "paid"

\* C19 as claimed: no path of the verification handler ends without a
\* response: no request is ever left with its callback finished and no
\* answer sent.
C19_NoPathWithoutResponse ==
  \A r \in Slots : reqs[r].pc # "hung"

\* C20 as claimed: a failure notification is started only for an order
\* whose stored status, as read by the lookup of the same turn, is pending.
C20_FailedMailOnlyForPending ==
  \A r \in Slots :
     (reqs[r].pc = "mail" /\ reqs[r].mail = "failed") =>
        reqs[r].order.status = "pending"

====
